---------------------------- MODULE Spec2Model ----------------------------
(***************************************************************************)
(* Model of leaflet-draw-shapes: the DrawLayer class (index.ts) and the    *)
(* merge helper (helpers/merge.js).                                        *)
(*                                                                         *)
(* Geometry is rasterised.  A point is a cell <<x, y>> of the pixel grid,  *)
(* a ring (polygon.getLatLngs()[0]) is the finite set of cells it          *)
(* encloses, and a point sequence (latLngs) is the sequence of cells a     *)
(* path visits.  Two rings overlap iff they share a cell; rings that only  *)
(* share an edge or a corner touch.  The pixel <-> lat/lng conversions of  *)
(* Leaflet are exact on grid cells.                                        *)
(*                                                                         *)
(* helpers/polygon (createFor, removeFor, clearFor), helpers/layer         *)
(* (updateFor), helpers/flags (the mode bits, modeFor) and                 *)
(* helpers/simplify are imported by the sources but are not part of them;  *)
(* they are modelled from the design document.                             *)
(***************************************************************************)
EXTENDS Integers, Sequences, FiniteSets, TLC

VARIABLES
    attached,   \* this.map is set (onAdd has run)
    options,    \* this.options: the constructor options over the defaults
    mode,       \* map[modesKey]
    store,      \* polygons.get(map): a set of polygon objects [id, ring]
    sessions,   \* the drawing sessions whose listeners are registered, in
                \* registration order: each is its linePoints buffer
    cancelArmed,\* map[cancelKey] is the mouseUp of the latest session
                \* (FALSE: it is the empty function)
    last,       \* what the last operation did (history, read by properties)
    detached,   \* onRemove has run: the map's polygon set and map[cancelKey]
                \* are deleted (this.map stays set)
    touchSessions
                \* map.on build only: the sessions whose mouseUp has run and
                \* whose touchmove and touchend listeners are still registered

vars ==
    <<attached, options, mode, store, sessions, cancelArmed, last, detached,
      touchSessions>>

-----------------------------------------------------------------------------
(* Bounds of the model.                                                    *)

\* The environment stops adding polygons when the store holds this many.
MaxStore == 3
\* Pointer-move samples one drawing session accumulates at most.
MaxPoints == 3
\* Drawing sessions started without the previous one having ended.
MaxSessions == 1
\* Merge passes one create is followed through before it counts as diverged.
MaxMergePasses == 3
\* The finite maximumPolygons the constructor is given in the model.
SmallCap == 2

-----------------------------------------------------------------------------
(* Mode flags (helpers/flags).                                             *)

NONE == 0
CREATE == 1
EDIT == 2
DELETE == 4
APPEND == 8
EDIT_APPEND == 10
ALL == 15

\* maximumPolygons: Infinity, as a number no store size reaches.
Infinity == 1000000

RECURSIVE BitAnd(_, _)
BitAnd(a, b) ==
    IF a = 0 \/ b = 0 THEN 0
    ELSE ((a % 2) * (b % 2)) + 2 * BitAnd(a \div 2, b \div 2)

RECURSIVE BitXor(_, _)
BitXor(a, b) ==
    IF a = 0 THEN b
    ELSE IF b = 0 THEN a
    ELSE ((a + b) % 2) + 2 * BitXor(a \div 2, b \div 2)

-----------------------------------------------------------------------------
(* Geometry.                                                               *)

Abs(n) == IF n < 0 THEN -n ELSE n

\* Two cells share an edge.
Adj(c, d) == Abs(c[1] - d[1]) + Abs(c[2] - d[2]) = 1

Range(s) == {s[i] : i \in DOMAIN s}

\* The cells sharing an edge with c.
Nbrs(c) ==
    {<<c[1] - 1, c[2]>>, <<c[1] + 1, c[2]>>,
     <<c[1], c[2] - 1>>, <<c[1], c[2] + 1>>}

RECURSIVE Flood(_, _)
\* The cells of `allowed` connected to S through shared edges.
Flood(S, allowed) ==
    LET T == S \cup (allowed \cap UNION {Nbrs(d) : d \in S})
    IN  IF T = S THEN S ELSE Flood(T, allowed)

RECURSIVE Components(_)
\* The edge-connected components of a set of cells.
Components(U) ==
    IF U = {} THEN {}
    ELSE LET c == CHOOSE c \in U : TRUE
             comp == Flood({c}, U)
         IN  {comp} \cup Components(U \ comp)

Min(S) == CHOOSE m \in S : \A n \in S : m <= n
Max(S) == CHOOSE m \in S : \A n \in S : m >= n

\* The bounding box of U, one cell wider on every side.
Frame(U) ==
    LET xs == {c[1] : c \in U}
        ys == {c[2] : c \in U}
    IN  ((Min(xs) - 1) .. (Max(xs) + 1)) \X ((Min(ys) - 1) .. (Max(ys) + 1))

\* The cells of the frame outside every contour of U.
Exterior(U) ==
    LET corner == <<Min({c[1] : c \in U}) - 1, Min({c[2] : c \in U}) - 1>>
    IN  Flood({corner}, Frame(U) \ U)

\* What the outer contour of U encloses: U and the voids inside it.
Fill(U) == Frame(U) \ Exterior(U)

\* The voids of U: the regions its hole contours enclose.
Holes(U) == Components(Fill(U) \ U)

\* @turf/intersect on two single-ring polygons, as a Boolean: they share
\* interior.
isIntersecting(a, b) == a \cap b # {}

\* Clipper.SimplifyPolygons(paths, pftNonZero): the union of the paths as
\* strictly simple contours.  Every contour of the result is one ring of the
\* returned list: the outer contour of each connected part and the contour of
\* each void inside one.  The rings are given as the regions they enclose.
SimplifyPolygons(paths) ==
    LET U == UNION paths
    IN  IF U = {} THEN {}
        ELSE {Fill(comp) : comp \in Components(U)} \cup Holes(U)

RECURSIVE RingToLatLngs(_)
\* A ring's points as a sequence (merge.js: polygon.map(layerPointToLatLng)).
RingToLatLngs(r) ==
    IF r = {} THEN <<>>
    ELSE LET c == CHOOSE c \in r : TRUE
         IN  <<c>> \o RingToLatLngs(r \ {c})


-----------------------------------------------------------------------------
(* The state one handler works on, threaded through the helpers it calls.  *)
(* err is the exception in flight ("none": no exception); once it is set   *)
(* the rest of the handler is skipped.                                     *)

\* created is what the createFor calls made so far have returned, removed the
\* polygons of the store a merge has handed to removeFor, unioned the
\* polygons whose rings were handed to Clipper.SimplifyPolygons, ret the
\* number a call returns (-1: undefined), handed and opts the point sequence
\* and the options of each createFor call the layer itself has made.
Call(s, m) ==
    [store |-> s, mode |-> m, err |-> "none", notes |-> <<>>,
     merges |-> 0, diverged |-> FALSE,
     created |-> {}, removed |-> {}, unioned |-> {}, ret |-> -1,
     handed |-> <<>>, opts |-> <<>>]

Raise(st, e) == [st EXCEPT !.err = e]

\* Fewest points the Simplifier accepts.
MinRingPoints == 3

\* The id of the next polygon object: polygons are told apart by identity,
\* and an id is free again once its polygon has left the store.
FreshId(s) == Min((1 .. (Cardinality(s) + 1)) \ {p.id : p \in s})

\* helpers/polygon removeFor(map, polygon): Set.delete by identity.
removeFor(st, polygon) ==
    [st EXCEPT !.store = {p \in @ : p.id # polygon.id}]

RECURSIVE removeAll(_, _)
\* polygons.forEach((polygon) => removeFor(map, polygon))
removeAll(st, ps) ==
    IF ps = {} THEN st
    ELSE LET p == CHOOSE p \in ps : TRUE
         IN  removeAll(removeFor(st, p), ps \ {p})

\* helpers/polygon clearFor(map): removes every polygon of the store.
clearFor(st) == removeAll(st, st.store)

\* helpers/layer updateFor(map, eventType): one notification of the current
\* polygon set, tagged with the reason.
updateFor(st, eventType) ==
    [st EXCEPT !.notes =
        Append(@, [eventType |-> eventType, polygons |-> st.store])]

\* helpers/flags modeFor(map, mode, options).
modeFor(st, m) == [st EXCEPT !.mode = m]

\* Mutant of RecreatePreventMutations: the union outputs are created like any
\* other polygon.
RecreateAllowMutations == FALSE

\* The fourth argument of the createFor call that rebuilds a union output.
RecreatePreventMutations == TRUE

RECURSIVE createFor(_, _, _, _)
RECURSIVE mergePolygons(_, _, _)
RECURSIVE createAll(_, _, _, _)

\* mergePolygons.flatMap: each ring of the union is created in turn.
createAll(st, rings, o, preventMutations) ==
    IF rings = {} \/ st.err # "none" THEN st
    ELSE LET r == CHOOSE r \in rings : TRUE
         IN  createAll(createFor(st, RingToLatLngs(r), o, preventMutations),
                       rings \ {r}, o, preventMutations)

\* Mutant of intersects: every polygon counts as intersecting another.
intersects_Always(polygon, polygons) == TRUE

\* merge.js, `intersects`: the polygon intersects one of the other polygons
\* handed to the merge.
intersects(polygon, polygons) ==
    \E item \in polygons :
        item.id # polygon.id /\ isIntersecting(polygon.ring, item.ring)

\* helpers/merge.js, the default export.  Its result, the flatMap of what the
\* createFor calls return, is the field created.
mergePolygons(st, polygons, o) ==
    IF st.merges >= MaxMergePasses THEN [st EXCEPT !.diverged = TRUE]
    ELSE
    LET intersectingPolygons ==
            {p \in polygons : intersects(p, polygons)}
        merged == SimplifyPolygons({p.ring : p \in intersectingPolygons})
        removed == removeAll([st EXCEPT !.merges = @ + 1,
                                        !.unioned = intersectingPolygons,
                                        !.removed =
                                           @ \cup (intersectingPolygons
                                                     \cap st.store)],
                             intersectingPolygons)
    IN  createAll(removed, merged, o, RecreatePreventMutations)

\* helpers/polygon createFor(map, latLngs, options, preventMutations).  It
\* returns the polygon it added, or the polygons of the merge when the merge
\* replaced polygons.
createFor(st0, latLngs, o, preventMutations) ==
    LET st == IF preventMutations THEN st0
              ELSE [st0 EXCEPT !.handed = Append(@, latLngs),
                               !.opts = Append(@, o)]
    IN
    IF st.err # "none" \/ st.diverged THEN st
    ELSE IF Cardinality(st.store) >= o.maximumPolygons
        THEN Raise(st, "CapacityExceededError")
    ELSE IF ~preventMutations /\ Len(latLngs) < MinRingPoints
        THEN Raise(st, "InsufficientPointsError")
    ELSE LET polygon == [id |-> FreshId(st.store), ring |-> Range(latLngs)]
             added == [st EXCEPT !.store = @ \cup {polygon}]
         IN  IF ~preventMutations /\ o.mergePolygons
                 THEN LET merged == mergePolygons(added, added.store, o)
                      IN  IF merged.created = {} /\ merged.err = "none"
                             THEN [merged EXCEPT !.created = {polygon}]
                             ELSE merged
                 ELSE [added EXCEPT !.created = @ \cup {polygon}]

-----------------------------------------------------------------------------
(* Options.                                                                *)

\* The options the model follows.  smoothFactor (0.3) and simplifyFactor
\* (1.1) are in tenths.
defaultOptions ==
    [mode |-> ALL, smoothFactor |-> 3, elbowDistance |-> 10,
     simplifyFactor |-> 11, mergePolygons |-> TRUE, concavePolygon |-> TRUE,
     maximumPolygons |-> Infinity, leaveModeAfterCreate |-> FALSE]

\* { ...a, ...b }
Spread(a, b) ==
    [k \in DOMAIN a \cup DOMAIN b |-> IF k \in DOMAIN b THEN b[k] ELSE a[k]]

\* The option objects the constructor is given in the model: one that names
\* no mode, and the example page's (example/script.js) with a smaller cap and
\* leaveModeAfterCreate.
ConstructorOptions ==
    { [mergePolygons |-> TRUE],
      [mode |-> CREATE, maximumPolygons |-> SmallCap,
       mergePolygons |-> FALSE, leaveModeAfterCreate |-> TRUE] }

\* The options argument of a create call: omitted, or turning merging on.
CallOptions ==
    { [concavePolygon |-> FALSE],
      [mergePolygons |-> TRUE] }

-----------------------------------------------------------------------------
(* Inputs.                                                                 *)

\* A C: the border of a 3 x 3 block of cells, open on the right.
CShape == << <<2,0>>, <<1,0>>, <<0,0>>, <<0,1>>, <<0,2>>, <<1,2>>, <<2,2>> >>
\* The right column of the block: it closes the C.
RightBar == << <<2,0>>, <<2,1>>, <<2,2>> >>
\* A small triangle inside the centre cell of the block.
Dot == << <<1,1>>, <<1,1>>, <<1,1>> >>

\* The point sequences handed to create.
PolygonInputs == {CShape, RightBar, Dot}

\* The cells the pointer samples while drawing.
SampleCells == {<<2,1>>}

\* The values handed to mode().
ModeInputs == {NONE, ALL}

NoOp ==
    [op |-> "none", err |-> "none", notes |-> <<>>, merges |-> 0,
     diverged |-> FALSE, mergeOn |-> FALSE, points |-> <<>>, pid |-> 0,
     sizeBefore |-> 0, created |-> {}, removed |-> {}, unioned |-> {},
     ret |-> -1, copy |-> {}, arg |-> -1, handed |-> <<>>, opts |-> <<>>,
     callOptions |-> <<>>]

\* The record of an operation that ran on the attached layer: points is the
\* point sequence it was given (create, a session's buffer), pid the identity
\* of the polygon it was given (removePolygon), sizeBefore the size of the
\* store when it started, merges the most merge passes one createFor made,
\* created, removed, unioned and ret as in the call state, copy the array
\* all() returned, arg the argument of mode(), callOptions the options
\* argument of create.
Done(op, st) ==
    [NoOp EXCEPT !.op = op, !.err = st.err, !.notes = st.notes,
                 !.merges = st.merges, !.diverged = st.diverged,
                 !.sizeBefore = Cardinality(store),
                 !.created = st.created, !.removed = st.removed,
                 !.unioned = st.unioned, !.ret = st.ret,
                 !.handed = st.handed, !.opts = st.opts]

-----------------------------------------------------------------------------
(* DrawLayer.                                                              *)

Init ==
    /\ attached = FALSE
    /\ options \in {Spread(defaultOptions, o) : o \in ConstructorOptions}
    /\ mode = NONE
    /\ store = {}
    /\ sessions = <<>>
    /\ cancelArmed = FALSE
    /\ last = NoOp
    /\ detached = FALSE
    /\ touchSessions = <<>>

\* Mutant of InitialMode: the layer starts in ALL whatever its options say.
InitialMode_AlwaysAll(o) == ALL

\* onAdd: this.options.mode ?? ALL
InitialMode(o) == IF "mode" \in DOMAIN o THEN o.mode ELSE ALL

\* onAdd(map)
onAdd ==
    /\ ~attached
    /\ attached' = TRUE
    /\ store' = {}
    /\ mode' = modeFor(Call({}, mode), InitialMode(options)).mode
    /\ sessions' = <<>>
    /\ cancelArmed' = FALSE
    /\ last' = [NoOp EXCEPT !.op = "onAdd"]
    /\ UNCHANGED <<options, detached, touchSessions>>

\* onRemove(map): deletes the map's polygon set and map[cancelKey].  It
\* leaves this.map, the mode and the listeners on the container as they are.
\* What the helpers do on a map whose polygon set is deleted is not in the
\* sources: create, removePolygon, clear and pointer-up are followed only
\* before onRemove.
onRemove ==
    /\ attached
    /\ ~detached
    /\ detached' = TRUE
    /\ store' = {}
    /\ cancelArmed' = FALSE
    /\ last' = [NoOp EXCEPT !.op = "onRemove"]
    /\ UNCHANGED <<attached, options, mode, sessions, touchSessions>>

\* Mutant of createCall: the constructor options are left out of the options
\* handed to createFor.
createCall_DropsLayerOptions(st, polygon, callOptions) ==
    LET created ==
            createFor(st, polygon, Spread(defaultOptions, callOptions), FALSE)
    IN  IF created.err # "none" THEN created
        ELSE updateFor(created, "create")

\* Mutant of createCall: the notification is sent before the polygon is
\* created.
createCall_NotifiesFirst(st, polygon, callOptions) ==
    createFor(updateFor(st, "create"), polygon,
              Spread(options, callOptions), FALSE)

\* create(polygon, options)
createCall(st, polygon, callOptions) ==
    LET created == createFor(st, polygon, Spread(options, callOptions), FALSE)
    IN  IF created.err # "none" THEN created
        ELSE updateFor(created, "create")

create(polygon, callOptions) ==
    /\ ~detached
    /\ Cardinality(store) < MaxStore
    /\ IF ~attached
          THEN /\ last' = [NoOp EXCEPT !.op = "create", !.points = polygon]
               /\ UNCHANGED <<store, mode>>
          ELSE \E st \in {createCall(Call(store, mode), polygon,
                                      callOptions)} :
                   /\ store' = st.store
                   /\ mode' = st.mode
                   /\ last' = [Done("create", st) EXCEPT
                                 !.points = polygon,
                                 !.callOptions = callOptions,
                                 !.mergeOn =
                                    Spread(options, callOptions).mergePolygons]
    /\ UNCHANGED <<attached, options, sessions, cancelArmed,
                 detached, touchSessions>>

\* Mutant of removePolygonCall: every polygon is removed.
removePolygonCall_RemovesAll(st, polygon) ==
    updateFor(clearFor(st), "remove")

\* removePolygon(polygon)
removePolygonCall(st, polygon) == updateFor(removeFor(st, polygon), "remove")

removePolygon(polygon) ==
    /\ ~detached
    /\ IF ~attached
          THEN /\ last' = [NoOp EXCEPT !.op = "removePolygon",
                                       !.pid = polygon.id]
               /\ UNCHANGED <<store, mode>>
          ELSE \E st \in {removePolygonCall(Call(store, mode), polygon)} :
                   /\ store' = st.store
                   /\ mode' = st.mode
                   /\ last' = [Done("removePolygon", st) EXCEPT
                                 !.pid = polygon.id]
    /\ UNCHANGED <<attached, options, sessions, cancelArmed,
                 detached, touchSessions>>

\* Mutant of clearCall: the store is notified but not cleared.
clearCall_NotifiesOnly(st) == updateFor(st, "clear")

\* clear()
clearCall(st) == updateFor(clearFor(st), "clear")

clear ==
    /\ ~detached
    /\ IF ~attached
          THEN /\ last' = [NoOp EXCEPT !.op = "clear"]
               /\ UNCHANGED <<store, mode>>
          ELSE \E st \in {clearCall(Call(store, mode))} :
                   /\ store' = st.store
                   /\ mode' = st.mode
                   /\ last' = Done("clear", st)
    /\ UNCHANGED <<attached, options, sessions, cancelArmed,
                 detached, touchSessions>>

\* Mutant of modeCall: the argument is ignored.
modeCall_Ignores(st, m) == [st EXCEPT !.ret = st.mode]

\* mode(mode): sets the mode when the argument is a number (m = -1 stands
\* for the omitted argument) and yields the current mode.
modeCall(st, m) ==
    LET set == IF m >= 0 THEN modeFor(st, m) ELSE st
    IN  [set EXCEPT !.ret = set.mode]

modeOp(m) ==
    /\ IF ~attached
          THEN /\ last' = [NoOp EXCEPT !.op = "mode", !.arg = m]
               /\ UNCHANGED mode
          ELSE \E st \in {modeCall(Call(store, mode), m)} :
                   /\ mode' = st.mode
                   /\ last' = [Done("mode", st) EXCEPT !.arg = m]
    /\ UNCHANGED <<attached, options, store, sessions, cancelArmed,
                 detached, touchSessions>>

\* What reading a property of, converting or calling undefined raises:
\* polygons.get(map) and map[cancelKey] once onRemove has deleted them.
DeletedAccess == "TypeError"

\* size()
sizeCall(st) == [st EXCEPT !.ret = Cardinality(st.store)]

size ==
    /\ last' = IF ~attached THEN [NoOp EXCEPT !.op = "size", !.ret = 0]
               ELSE IF detached
                   THEN [NoOp EXCEPT !.op = "size", !.err = DeletedAccess]
               ELSE Done("size", sizeCall(Call(store, mode)))
    /\ UNCHANGED <<attached, options, mode, store, sessions, cancelArmed,
                 detached, touchSessions>>

\* Mutant of AllReturnsCopy: all() hands out the store's own collection.
AllReturnsStore == FALSE

\* all() returns Array.from(the store's Set): a new array.
AllReturnsCopy == TRUE

\* all()
all ==
    /\ last' = IF ~attached THEN [NoOp EXCEPT !.op = "all"]
               ELSE IF detached
                   THEN [NoOp EXCEPT !.op = "all", !.err = DeletedAccess]
               ELSE [Done("all", Call(store, mode)) EXCEPT !.copy = store]
    /\ UNCHANGED <<attached, options, mode, store, sessions, cancelArmed,
                 detached, touchSessions>>

\* The caller takes an element out of the collection all() has just returned.
\* What it removes leaves the store only if that collection is the store's.
spliceReturned ==
    /\ last.op \in {"all", "splice"}
    /\ last.copy # {}
    /\ LET p == CHOOSE p \in last.copy : TRUE
       IN  /\ last' = [last EXCEPT !.op = "splice", !.copy = @ \ {p}]
           /\ store' = IF AllReturnsCopy THEN store ELSE store \ {p}
    /\ UNCHANGED <<attached, options, mode, sessions, cancelArmed,
                 detached, touchSessions>>

\* listenForEvents: mouseUp(_, create) of the session whose buffer is
\* linePoints.  An exception ends this handler only.
mouseUp(st, linePoints, doCreate) ==
    LET s0 == [st EXCEPT !.err = "none", !.merges = 0, !.created = {}]
        s1 == IF ~doCreate THEN s0
              ELSE LET created == IF Len(linePoints) > 0
                                     THEN createFor(s0, linePoints, options,
                                                    FALSE)
                                     ELSE s0
                   IN  IF created.err # "none" THEN created
                       ELSE LET updated == updateFor(created, "create")
                            IN  IF options.leaveModeAfterCreate
                                   THEN modeCall(updated,
                                          BitXor(modeCall(updated, -1).mode,
                                                 CREATE))
                                   ELSE updated
    IN  [s1 EXCEPT !.err = IF st.err # "none" THEN st.err ELSE @,
                   !.merges = IF st.merges > @ THEN st.merges ELSE @]

RECURSIVE dispatchMouseUp(_, _)
\* A mouseup / touchend / mouseleave event: the listeners registered for it
\* run in registration order.
dispatchMouseUp(st, ss) ==
    IF ss = <<>> THEN st
    ELSE dispatchMouseUp(mouseUp(st, Head(ss), TRUE), Tail(ss))

\* mouseDown: const linePoints = new Set()
NewLinePoints == <<>>

\* listenForEvents: mouseDown(event), while fewer than n sessions are in
\* progress.
mouseDown(n) ==
    /\ attached
    /\ Len(sessions) < n
    /\ IF BitAnd(mode, CREATE) = 0
          THEN UNCHANGED <<sessions, cancelArmed>>
          ELSE /\ sessions' = Append(sessions, NewLinePoints)
               /\ cancelArmed' = TRUE
    /\ last' = [NoOp EXCEPT !.op = "mouseDown"]
    /\ UNCHANGED <<attached, options, mode, store, detached, touchSessions>>

\* A mousedown / touchstart event.
pointerDown == mouseDown(MaxSessions)

\* A mousemove / touchmove event: mouseMove(event) of every session in
\* progress.  The pointer moves at most one cell between two samples.
pointerMove(point) ==
    /\ attached
    /\ sessions # <<>>
    /\ \A i \in DOMAIN sessions : Len(sessions[i]) < MaxPoints
    /\ LET first == sessions[1]
       IN  first # <<>> =>
              \/ point = first[Len(first)]
              \/ Adj(point, first[Len(first)])
    /\ sessions' = [i \in DOMAIN sessions |-> Append(sessions[i], point)]
    /\ last' = [NoOp EXCEPT !.op = "mouseMove", !.points = <<point>>]
    /\ UNCHANGED <<attached, options, mode, store, cancelArmed,
                 detached, touchSessions>>

\* A mouseup / touchend / mouseleave event.
pointerUp ==
    /\ attached
    /\ ~detached
    /\ sessions # <<>>
    /\ \E st \in {dispatchMouseUp(Call(store, mode), sessions)} :
           /\ store' = st.store
           /\ mode' = st.mode
           /\ last' = [Done("mouseUp", st) EXCEPT
                         !.points = sessions[1],
                         !.mergeOn = options.mergePolygons]
    /\ sessions' = <<>>
    /\ cancelArmed' = FALSE
    /\ UNCHANGED <<attached, options, detached, touchSessions>>

\* Mutant of CancelCreates: cancel runs mouseUp with its default, create.
CancelCreatesByDefault == TRUE

\* The create argument of the mouseUp call map[cancelKey] makes.
CancelCreates == FALSE

\* cancel(): map[cancelKey]() is () => mouseUp({}, false) while a session is
\* armed, and the empty function otherwise; after onRemove it is deleted
\* until a mouseDown assigns it again, and the cancel of a session started
\* after onRemove is not followed.
cancel ==
    /\ ~(detached /\ cancelArmed)
    /\ IF attached /\ cancelArmed
          THEN \E st \in {mouseUp(Call(store, mode),
                                 sessions[Len(sessions)], CancelCreates)} :
                   /\ store' = st.store
                   /\ mode' = st.mode
                   /\ sessions' = SubSeq(sessions, 1, Len(sessions) - 1)
                   /\ cancelArmed' = FALSE
                   /\ last' = [Done("cancel", st) EXCEPT
                                 !.points = sessions[Len(sessions)]]
          ELSE /\ last' = [NoOp EXCEPT
                               !.op = "cancel",
                               !.err = IF attached /\ detached
                                          THEN DeletedAccess ELSE "none"]
               /\ UNCHANGED <<store, mode, sessions, cancelArmed>>
    /\ UNCHANGED <<attached, options, detached, touchSessions>>

\* The polygon objects handed to removePolygon: the members of the store and
\* one polygon that is not in it.
PolygonArgs ==
    store \cup {[id |-> FreshId(store), ring |-> Range(Dot)]}

Next ==
    \/ onAdd
    \/ \E polygon \in PolygonInputs, callOptions \in CallOptions :
          create(polygon, callOptions)
    \/ \E polygon \in PolygonArgs : removePolygon(polygon)
    \/ clear
    \/ \E m \in ModeInputs \cup {-1} : modeOp(m)
    \/ size
    \/ all
    \/ spliceReturned
    \/ pointerDown
    \/ \E point \in SampleCells : pointerMove(point)
    \/ pointerUp
    \/ cancel

Spec == Init /\ [][Next]_vars

-----------------------------------------------------------------------------
(* The merge on wider inputs: create calls that switch merging on and off   *)
(* and a shape whose union with the bar has two voids.                      *)

\* An E: a spine of five cells with three prongs, the middle one reaching
\* the right column.  The bar closes the two notches between the prongs.
EShape ==
    << <<1,-1>>, <<0,-1>>, <<0,0>>, <<0,1>>, <<1,1>>, <<2,1>>, <<0,2>>,
       <<0,3>>, <<1,3>> >>

\* A small triangle inside the upper notch of the E.
Notch == << <<1,0>>, <<1,0>>, <<1,0>> >>

MergeInputs == {EShape, RightBar, Notch}

\* The options argument of a create call: omitted, or setting mergePolygons.
MergeCallOptions ==
    CallOptions \cup { [mergePolygons |-> FALSE] }

MergeNext ==
    \/ onAdd
    \/ \E polygon \in MergeInputs, callOptions \in MergeCallOptions :
          create(polygon, callOptions)
    \/ \E polygon \in PolygonArgs : removePolygon(polygon)
    \/ clear

MergeSpec == Init /\ [][MergeNext]_vars

-----------------------------------------------------------------------------
(* Layers constructed with any options object, valid or not.               *)

\* Option objects with a negative value.
InvalidConstructorOptions ==
    { [maximumPolygons |-> -1], [mode |-> CREATE, elbowDistance |-> -1] }

\* new DrawLayer(options): { ...defaultOptions, ...options }
ConfigInit ==
    /\ attached = FALSE
    /\ options \in {Spread(defaultOptions, o) :
                       o \in ConstructorOptions \cup InvalidConstructorOptions}
    /\ mode = NONE
    /\ store = {}
    /\ sessions = <<>>
    /\ cancelArmed = FALSE
    /\ last = NoOp
    /\ detached = FALSE
    /\ touchSessions = <<>>

ConfigSpec == ConfigInit /\ [][Next]_vars

-----------------------------------------------------------------------------
(* Drawings started while another is in progress (a second button pressed, *)
(* a touch during a mouse drag).                                           *)

\* Drawing sessions in progress at once.
MaxNested == 2

pointerDownNested == mouseDown(MaxNested)

NestedNext ==
    \/ onAdd
    \/ pointerDownNested
    \/ \E point \in SampleCells : pointerMove(point)
    \/ pointerUp
    \/ cancel
    \/ \E m \in ModeInputs : modeOp(m)

NestedSpec == Init /\ [][NestedNext]_vars

-----------------------------------------------------------------------------
(* The build whose listeners are registered with map.on.  Its mouseUp    *)
(* takes off the mouseup, mousemove and mouseleave listeners of its        *)
(* session; the touchmove and touchend listeners registered with them stay *)
(* on the map.                                                             *)

\* Ended sessions whose touch listeners the model follows.
MaxTouchSessions == 1

\* map.on('mousedown touchstart', mouseDown)
pointerDownMapOn ==
    /\ Len(touchSessions) < MaxTouchSessions
    /\ pointerDown

\* A touchmove event: mouseMove(event) of every session whose touchmove
\* listener is registered.
touchMoveMapOn(point) ==
    /\ attached
    /\ touchSessions \o sessions # <<>>
    /\ \A i \in DOMAIN sessions : Len(sessions[i]) < MaxPoints
    /\ \A i \in DOMAIN touchSessions : Len(touchSessions[i]) < MaxPoints
    /\ sessions' = [i \in DOMAIN sessions |-> Append(sessions[i], point)]
    /\ touchSessions' =
          [i \in DOMAIN touchSessions |-> Append(touchSessions[i], point)]
    /\ last' = [NoOp EXCEPT !.op = "touchMove", !.points = <<point>>]
    /\ UNCHANGED <<attached, options, mode, store, cancelArmed, detached>>

\* A mouseup or mouseleave event: the mouseUp of every session in progress.
mouseUpMapOn ==
    /\ attached
    /\ sessions # <<>>
    /\ \E st \in {dispatchMouseUp(Call(store, mode), sessions)} :
           /\ store' = st.store
           /\ mode' = st.mode
           /\ last' = [Done("mouseUp", st) EXCEPT
                         !.points = sessions[1],
                         !.mergeOn = options.mergePolygons]
    /\ sessions' = <<>>
    /\ touchSessions' = touchSessions \o sessions
    /\ cancelArmed' = FALSE
    /\ UNCHANGED <<attached, options, detached>>

\* A touchend event: the mouseUp of every session whose touchend listener
\* is registered, in registration order.
touchEndMapOn ==
    /\ attached
    /\ touchSessions \o sessions # <<>>
    /\ Cardinality(store) < MaxStore
    /\ \E st \in {dispatchMouseUp(Call(store, mode),
                                   touchSessions \o sessions)} :
           /\ store' = st.store
           /\ mode' = st.mode
           /\ last' = [Done("touchEnd", st) EXCEPT
                         !.points = (touchSessions \o sessions)[1],
                         !.mergeOn = options.mergePolygons]
    /\ sessions' = <<>>
    /\ touchSessions' = touchSessions \o sessions
    /\ cancelArmed' = FALSE
    /\ UNCHANGED <<attached, options, detached>>

\* cancel() in this build.
cancelMapOn ==
    /\ IF attached /\ cancelArmed
          THEN \E st \in {mouseUp(Call(store, mode),
                                 sessions[Len(sessions)], CancelCreates)} :
                   /\ store' = st.store
                   /\ mode' = st.mode
                   /\ sessions' = SubSeq(sessions, 1, Len(sessions) - 1)
                   /\ touchSessions' =
                         Append(touchSessions, sessions[Len(sessions)])
                   /\ cancelArmed' = FALSE
                   /\ last' = [Done("cancel", st) EXCEPT
                                 !.points = sessions[Len(sessions)]]
          ELSE /\ last' = [NoOp EXCEPT !.op = "cancel"]
               /\ UNCHANGED <<store, mode, sessions, cancelArmed,
                              touchSessions>>
    /\ UNCHANGED <<attached, options, detached>>

MapOnNext ==
    \/ onAdd
    \/ pointerDownMapOn
    \/ \E point \in SampleCells : pointerMove(point)
    \/ \E point \in SampleCells : touchMoveMapOn(point)
    \/ mouseUpMapOn
    \/ touchEndMapOn
    \/ cancelMapOn
    \/ clear
    \/ \E m \in ModeInputs : modeOp(m)

MapOnSpec == Init /\ [][MapOnNext]_vars

-----------------------------------------------------------------------------
(* Layers that are taken off the map again.                               *)

RemoveNext ==
    \/ onAdd
    \/ onRemove
    \/ \E polygon \in PolygonInputs, callOptions \in CallOptions :
          create(polygon, callOptions)
    \/ \E m \in ModeInputs \cup {-1} : modeOp(m)
    \/ size
    \/ all
    \/ cancel
    \/ pointerDown
    \/ \E point \in SampleCells : pointerMove(point)

RemoveSpec == Init /\ [][RemoveNext]_vars

-----------------------------------------------------------------------------
(* Properties.                                                             *)

\* No two distinct polygons of the store are reported as intersecting.
NoTwoIntersect ==
    \A p, q \in store : p.id # q.id => ~isIntersecting(p.ring, q.ring)

\* The last operation was a create (a create call, or a pointer-up that handed
\* its points to createFor) on the attached layer that returned normally.
CreateReturned ==
    /\ attached
    /\ \/ last.op = "create"
       \/ last.op = "mouseUp" /\ Len(last.points) > 0
    /\ last.err = "none"

\* C1: after any create (a create call or a drawing completed by pointer-up)
\* made with mergePolygons enabled, no two distinct polygons of the store are
\* reported as intersecting.  Stated for the creates that return normally.
C1_NoIntersectionAfterMergingCreate ==
    (CreateReturned /\ last.mergeOn) => NoTwoIntersect

\* The candidate of the create being made intersects no polygon of the store.
CandidateIntersectsNone ==
    \A p \in store : ~isIntersecting(p.ring, Range(last'.points))

\* C2: when the store holds maximumPolygons polygons, a create of a polygon
\* that intersects none of them fails with CapacityExceededError and leaves
\* the store as it was.
C2_CreateAtCapacityFails ==
    [][ ( /\ attached
          /\ last'.op = "create"
          /\ Cardinality(store) = options.maximumPolygons
          /\ CandidateIntersectsNone )
        => ( /\ last'.err = "CapacityExceededError"
             /\ store' = store ) ]_vars

\* A create of a polygon that intersects no member was refused on a full
\* store.
C2_Witness ==
    /\ attached
    /\ last.op = "create"
    /\ last.err = "CapacityExceededError"
    /\ last.sizeBefore = options.maximumPolygons
    /\ Cardinality(store) = options.maximumPolygons
    /\ \A p \in store : ~isIntersecting(p.ring, Range(last.points))

C4_CreateNeedsCreateBit ==
    [][ ( /\ attached
          /\ BitAnd(mode, CREATE) = 0
          /\ last'.op \in {"create", "mouseUp"} )
        => store' \subseteq store ]_vars

\* C5: while the mode does not include DELETE, removePolygon leaves the store
\* unchanged.
C5_RemoveNeedsDeleteBit ==
    [][ ( /\ attached
          /\ BitAnd(mode, DELETE) = 0
          /\ last'.op = "removePolygon" )
        => store' = store ]_vars

\* C6: removePolygon(p) raises no error and removes exactly p: the store
\* afterwards is the store before without p, which is the store before when
\* p was not in it.
C6_RemoveExactlyOne ==
    [][ (attached /\ last'.op = "removePolygon")
        => ( /\ last'.err = "none"
             /\ store' = {q \in store : q.id # last'.pid} ) ]_vars

\* removePolygon took one polygon out of a store that held others.
C6_Witness ==
    /\ attached
    /\ last.op = "removePolygon"
    /\ last.sizeBefore = Cardinality(store) + 1
    /\ store # {}
    /\ last.pid \notin {q.id : q \in store}

\* C7: clear empties the store in every mode, also when it was empty already.
C7_ClearEmpties ==
    (attached /\ last.op = "clear")
        => (store = {} /\ Cardinality(store) = 0 /\ last.err = "none")

\* clear emptied a store that held polygons while the mode was NONE.
C7_Witness ==
    /\ attached
    /\ last.op = "clear"
    /\ last.sizeBefore > 0
    /\ mode = NONE
    /\ store = {}

\* C8: cancel never changes the store; with a drawing in progress it ends it
\* (the latest session) and creates nothing, and without one, as right after
\* another cancel, it changes nothing.
C8_CancelLeavesStore ==
    [][ last'.op = "cancel"
        => ( /\ store' = store
             /\ mode' = mode
             /\ last'.notes = <<>>
             /\ ~cancelArmed'
             /\ IF attached /\ cancelArmed
                   THEN Len(sessions') = Len(sessions) - 1
                   ELSE sessions' = sessions /\ cancelArmed' = cancelArmed ) ]_vars

\* cancel ended a drawing that had gathered enough points for a polygon.
C8_Witness ==
    /\ last.op = "cancel"
    /\ Len(last.points) >= MinRingPoints
    /\ sessions = <<>>

\* The reason code of a mutating call.
ReasonOf(op) ==
    CASE op = "create" -> "create"
      [] op = "removePolygon" -> "remove"
      [] op = "clear" -> "clear"

MutatingCall == attached /\ last.op \in {"create", "removePolygon", "clear"}

ExactlyOneNotification ==
    /\ Len(last.notes) = 1
    /\ last.notes[1].eventType = ReasonOf(last.op)
    /\ last.notes[1].polygons = store

C10_SingleMergePass == last.merges <= 1 /\ ~last.diverged

\* A create made its merge pass and stored a ring of the union.
C10_Witness ==
    /\ attached
    /\ last.op = "create"
    /\ last.merges = 1
    /\ \E p \in store : p.ring \notin {Range(i) : i \in PolygonInputs}

\* A create call on the attached layer is being made and runs its merge pass.
MergingCreate == attached /\ last'.op = "create" /\ last'.merges >= 1

\* The polygons of the store that intersect the candidate of the create being
\* made.
IntersectingCandidate ==
    {p \in store : isIntersecting(p.ring, Range(last'.points))}

\* C11: the polygons a merge removes from the store are exactly the existing
\* polygons that intersect the candidate; a polygon that does not intersect
\* the candidate is not removed, even if it intersects another polygon of the
\* store.
C11_ReplacedIntersectCandidate ==
    [][ MergingCreate
        => (last'.removed \cap store) = IntersectingCandidate ]_vars

\* C12: create returns the polygons it added to the store.  When the
\* candidate intersects no polygon of the store, the result is the one
\* candidate polygon and nothing is removed; when it intersects some, the
\* result is the polygons built from the rings the union put out.
C12_CreateReturnsAdded ==
    [][ (attached /\ last'.op = "create" /\ last'.err = "none")
        => ( /\ last'.created \subseteq store'
             /\ IF ~last'.mergeOn \/ IntersectingCandidate = {}
                   THEN /\ Cardinality(last'.created) = 1
                        /\ \A c \in last'.created :
                              c.ring = Range(last'.points)
                        /\ last'.removed = {}
                        /\ store' = store \cup last'.created
                   ELSE {c.ring : c \in last'.created} =
                           SimplifyPolygons({p.ring : p \in last'.unioned}) )
      ]_vars

\* C13: create is all-or-nothing: a create that fails leaves the store as it
\* was before the call.
C13_FailedCreateLeavesStore ==
    [][ (attached /\ last'.op = "create" /\ last'.err # "none")
        => store' = store ]_vars

\* No option of o is negative.
ValidOptions(o) ==
    /\ o.maximumPolygons >= 0
    /\ o.simplifyFactor >= 0
    /\ o.elbowDistance >= 0
    /\ o.smoothFactor >= 0

\* C14: a layer whose options hold a negative maximumPolygons, simplifyFactor,
\* elbowDistance or smoothFactor is refused at construction: no such layer is
\* ever attached or has a drawing session.
C14_InvalidOptionsNeverAttached ==
    (attached \/ sessions # <<>>) => ValidOptions(options)

\* C15: the mode changes only through mode(m): mode(m) with a number makes
\* the mode m and returns it, mode() returns the mode and leaves it, and
\* create, removePolygon, clear, cancel, size and all leave the mode as it is.
C15_ModeChangesOnlyByModeCall ==
    [][ /\ (attached /\ last'.op = "mode" /\ last'.arg >= 0)
              => (mode' = last'.arg /\ last'.ret = last'.arg)
        /\ (attached /\ last'.op = "mode" /\ last'.arg < 0)
              => (mode' = mode /\ last'.ret = mode)
        /\ last'.op \in {"create", "removePolygon", "clear", "cancel",
                          "size", "all"}
              => mode' = mode ]_vars

\* mode(NONE) was called on a layer constructed with another mode.
C15_Witness ==
    /\ attached
    /\ last.op = "mode"
    /\ last.arg = NONE
    /\ last.ret = NONE
    /\ mode = NONE
    /\ options.mode # NONE

\* C16: right after onAdd the mode is the mode of the constructor options,
\* and ALL when they name none.
C16_InitialMode ==
    last.op = "onAdd" =>
        \E o \in ConstructorOptions :
            /\ options = Spread(defaultOptions, o)
            /\ mode = IF "mode" \in DOMAIN o THEN o.mode ELSE ALL

\* A layer constructed with mode CREATE has been added to the map.
C16_Witness ==
    /\ attached
    /\ last.op = "onAdd"
    /\ options.mode = CREATE
    /\ mode = CREATE

\* The bits of a mode other than CREATE.
OtherBits(m) == BitAnd(m, ALL - CREATE)

\* C17: with leaveModeAfterCreate, after a drawing completed by pointer-up
\* the mode does not include CREATE and its other bits are as before,
\* whatever mode() calls were made since pointer-down.  Stated for the
\* pointer-ups whose handlers return normally.
C17_LeavesCreateAfterDrawing ==
    [][ ( /\ attached
          /\ options.leaveModeAfterCreate
          /\ last'.op = "mouseUp"
          /\ last'.err = "none" )
        => ( /\ BitAnd(mode', CREATE) = 0
             /\ OtherBits(mode') = OtherBits(mode) ) ]_vars

\* C18: size and all read the same store: size() is the number of polygons
\* all() returns, neither changes the store or the mode, and taking an
\* element out of the array all() returned leaves the store as it is.
C18_SizeAndAllArePureReads ==
    [][ /\ (attached /\ last'.op = "size")
              => ( /\ last'.ret = Cardinality(store)
                   /\ store' = store /\ mode' = mode )
        /\ (attached /\ last'.op = "all")
              => ( /\ last'.copy = store
                   /\ store' = store /\ mode' = mode )
        /\ last'.op = "splice"
              => ( /\ store' = store /\ mode' = mode
                   /\ Cardinality(last'.copy) < Cardinality(store) ) ]_vars

\* The array all() returned for a store of two polygons has been emptied.
C18_Witness ==
    /\ attached
    /\ last.op = "splice"
    /\ last.copy = {}
    /\ Cardinality(store) = 2

\* The polygon intersects no other polygon of the store nor the candidate of
\* the create being made.
IntersectsNoOther(p) ==
    /\ \A q \in store : q.id # p.id => ~isIntersecting(p.ring, q.ring)
    /\ ~isIntersecting(p.ring, Range(last'.points))

\* C19: a merge leaves every polygon that intersects no other polygon
\* untouched: it is in the store after the create as it was before, it was
\* not removed and it was not handed to the union; the same holds for the
\* candidate when it intersects no polygon of the store.
C19_MergeLeavesRestUntouched ==
    [][ MergingCreate
        => ( /\ \A p \in store :
                   IntersectsNoOther(p)
                       => ( /\ p \in store'
                            /\ p \notin last'.removed
                            /\ p \notin last'.unioned )
             /\ IntersectingCandidate = {}
                   => \E c \in store' :
                         /\ c.ring = Range(last'.points)
                         /\ c.id \notin {p.id : p \in store}
                         /\ c \notin last'.removed
                         /\ c \notin last'.unioned ) ]_vars

\* A merge replaced the E and the bar and left the notch polygon, which
\* intersected neither, in the store.
C19_Witness ==
    /\ attached
    /\ last.op = "create"
    /\ last.merges = 1
    /\ last.removed # {}
    /\ last.err = "none"
    /\ \E p \in store :
          /\ p.ring = Range(Notch)
          /\ p \notin last.created
          /\ p \notin last.removed
          /\ \A q \in last.removed : ~isIntersecting(p.ring, q.ring)

\* C20: with mergePolygons disabled a create (a create call or a drawing
\* completed by pointer-up) removes no polygon: every polygon of the store
\* before it is in the store after it.
C20_NoMergeNoRemoval ==
    [][ ( /\ attached
          /\ last'.op \in {"create", "mouseUp"}
          /\ ~last'.mergeOn )
        => ( /\ store \subseteq store'
             /\ last'.removed = {} ) ]_vars

\* A create with merging disabled stored a candidate next to a polygon it
\* intersects.
C20_Witness ==
    /\ attached
    /\ last.op = "create"
    /\ ~last.mergeOn
    /\ last.err = "none"
    /\ \E p \in store :
          /\ p \notin last.created
          /\ isIntersecting(p.ring, Range(last.points))
    /\ \E c \in last.created : c \in store

\* C21: a drawing that cannot form a polygon (no pointer-move sample between
\* pointer-down and pointer-up, or fewer samples than a ring needs) produces
\* no polygon and no error: pointer-up leaves the store as it was and its
\* handler raises nothing.
C21_DegenerateDrawingIsSilent ==
    [][ ( /\ attached
          /\ last'.op = "mouseUp"
          /\ Len(last'.points) < MinRingPoints )
        => ( /\ store' = store
             /\ last'.err = "none" ) ]_vars

\* The buffers of the sessions in progress that hold a point, in the order
\* the sessions started.
LiveBuffers == SelectSeq(sessions, LAMBDA buffer : buffer # <<>>)

\* C22: a drawing session starts with an empty point buffer, every
\* pointer-move sample is appended to it, and the sequences handed to create
\* at pointer-up are exactly the buffers of the sessions in progress: points
\* of a session that was cancelled or completed are not handed to a later
\* create, and a cancel hands nothing.
C22_SessionBufferIsItsSamples ==
    [][ /\ (last'.op = "mouseDown" /\ Len(sessions') > Len(sessions))
              => sessions'[Len(sessions')] = <<>>
        /\ last'.op \in {"mouseMove", "touchMove"}
              => \A i \in DOMAIN sessions :
                    sessions'[i] = sessions[i] \o last'.points
        /\ last'.op \in {"mouseUp", "touchEnd"}
              => last'.handed = LiveBuffers
        /\ last'.op = "cancel"
              => last'.handed = <<>> ]_vars

\* C23: a session ends once: when every session has had its pointer-up or
\* its cancel, a pointer-move, pointer-up, touch-end or mouseleave event
\* creates no polygon, emits no notification and changes no mode.
C23_SessionEndsOnce ==
    [][ ( /\ attached
          /\ sessions = <<>>
          /\ last'.op \in {"mouseMove", "touchMove", "mouseUp", "touchEnd"} )
        => ( /\ store' = store
             /\ mode' = mode
             /\ last'.notes = <<>> ) ]_vars

\* C24: a pointer-up that follows cancel without a pointer-down in between
\* creates no polygon, also when a second pointer-down came before the first
\* session had ended.
C24_NoCreateAfterCancel ==
    [][ (last.op = "cancel" /\ last'.op = "mouseUp")
        => store' = store ]_vars

\* The layer is not on a map: onAdd has not run, or onRemove has.
Unattached == ~attached \/ detached

\* C25: while the layer is not on a map it is inert: create, removePolygon,
\* clear, mode and cancel change nothing and raise nothing, size() returns 0,
\* all() returns an empty list, and pointer events start no session and
\* create no polygon.
C25_UnattachedLayerIsInert ==
    [][ ( /\ Unattached
          /\ last'.op \in {"create", "removePolygon", "clear", "mode",
                            "cancel", "size", "all", "mouseDown",
                            "mouseMove", "mouseUp"} )
        => ( /\ store' = store
             /\ mode' = mode
             /\ sessions' = sessions
             /\ last'.err = "none"
             /\ last'.op = "size" => last'.ret = 0
             /\ last'.op = "all" => last'.copy = {} ) ]_vars

\* C26: a programmatic create hands createFor the defaults overridden by the
\* constructor options overridden by the call's options; when the call's
\* options are omitted concavePolygon is false for that call whatever the
\* constructor option says; a drawing gesture hands createFor the
\* constructor options unchanged.
C26_OptionPrecedence ==
    [][ /\ (attached /\ last'.op = "create")
            => /\ \E o \in ConstructorOptions :
                      /\ options = Spread(defaultOptions, o)
                      /\ last'.opts =
                            << Spread(Spread(defaultOptions, o),
                                      last'.callOptions) >>
               /\ last'.callOptions = [concavePolygon |-> FALSE]
                      => ~last'.opts[1].concavePolygon
        /\ (attached /\ last'.op = "mouseUp")
            => \A i \in DOMAIN last'.opts : last'.opts[i] = options ]_vars

\* A create without an options argument on the layer constructed with the
\* example page's options: the constructor's cap and the call's
\* concavePolygon both reach createFor.
C26_Witness ==
    /\ attached
    /\ last.op = "create"
    /\ last.callOptions = [concavePolygon |-> FALSE]
    /\ options.concavePolygon
    /\ options.maximumPolygons = SmallCap
    /\ Len(last.opts) = 1
    /\ ~last.opts[1].concavePolygon
    /\ last.opts[1].maximumPolygons = SmallCap
    /\ last.opts[1].smoothFactor = defaultOptions.smoothFactor

\* A gesture that reached createFor with the layer's options.
C26_GestureWitness ==
    /\ last.op = "mouseUp"
    /\ last.opts = <<options>>
    /\ options.concavePolygon

=============================================================================
